---- MODULE Spec2Model ----
(***************************************************************************)
(* A model of scraper.py: the blog archiver that walks a paginated feed,   *)
(* fetches the comment feed of every post and writes index.md and          *)
(* comments.md under posts/<year>/<folder>/.                               *)
(*                                                                         *)
(* Text is a sequence of one-character strings, so that the parsing and    *)
(* formatting the program does (the "post-<digits>" search, the timestamp  *)
(* parse, strftime, strip, the slug) is computed, not assumed.  A piece of *)
(* HTML is a sequence whose elements are characters or whole tags.         *)
(***************************************************************************)
EXTENDS Integers, Sequences, FiniteSets, TLC

(***************************************************************************)
(* Program constants                                                       *)
(***************************************************************************)
BLOG_FEED_URL == "https://theguitarman.blogspot.com/feeds/posts/default"
OUTPUT_DIR == <<"p", "o", "s", "t", "s">>
MAX_RESULTS_PER_PAGE == 25
SLUG_MAX_LENGTH == 50

\* A value that may be None: <<>> is None, <<v>> is the value v.  A URL is a
\* TLA+ string, so the url of the walk is Nothing or Some(u).
Nothing == <<>>
Some(v) == <<v>>

(***************************************************************************)
(* Characters                                                              *)
(***************************************************************************)
DigitChars == <<"0", "1", "2", "3", "4", "5", "6", "7", "8", "9">>
Lowers == <<"a", "b", "c", "d", "e", "f", "g", "h", "i", "j", "k", "l", "m",
            "n", "o", "p", "q", "r", "s", "t", "u", "v", "w", "x", "y", "z">>
Uppers == <<"A", "B", "C", "D", "E", "F", "G", "H", "I", "J", "K", "L", "M",
            "N", "O", "P", "Q", "R", "S", "T", "U", "V", "W", "X", "Y", "Z">>
Range(s) == {s[i] : i \in DOMAIN s}
DigitSet == Range(DigitChars)
IsDigit(c) == c \in DigitSet
\* The characters \d of a str pattern matches: the decimal digits of every
\* script.  Written as the characters themselves: 0 to 9 and the digits of
\* the eighteen other scripts a string of the model can hold (U+06F0,
\* U+07C0, U+09E6, U+0AE6, U+0BE6, U+0CE6, U+0DE6, U+0ED0, U+1090, U+17E0,
\* U+19D0, U+1A80, U+1A90, U+1BB0, U+A8D0, U+A9D0, U+A9F0, U+ABF0, ten
\* each); the digits of the remaining scripts cannot be written in a string
\* of the model.
DecimalDigits ==
    DigitSet \cup
    {"۰", "۱", "۲", "۳", "۴", "۵", "۶", "۷", "۸", "۹",
     "߀", "߁", "߂", "߃", "߄", "߅", "߆", "߇", "߈", "߉",
     "০", "১", "২", "৩", "৪", "৫", "৬", "৭", "৮", "৯",
     "૦", "૧", "૨", "૩", "૪", "૫", "૬", "૭", "૮", "૯",
     "௦", "௧", "௨", "௩", "௪", "௫", "௬", "௭", "௮", "௯",
     "೦", "೧", "೨", "೩", "೪", "೫", "೬", "೭", "೮", "೯",
     "෦", "෧", "෨", "෩", "෪", "෫", "෬", "෭", "෮", "෯",
     "໐", "໑", "໒", "໓", "໔", "໕", "໖", "໗", "໘", "໙",
     "႐", "႑", "႒", "႓", "႔", "႕", "႖", "႗", "႘", "႙",
     "០", "១", "២", "៣", "៤", "៥", "៦", "៧", "៨", "៩",
     "᧐", "᧑", "᧒", "᧓", "᧔", "᧕", "᧖", "᧗", "᧘", "᧙",
     "᪀", "᪁", "᪂", "᪃", "᪄", "᪅", "᪆", "᪇", "᪈", "᪉",
     "᪐", "᪑", "᪒", "᪓", "᪔", "᪕", "᪖", "᪗", "᪘", "᪙",
     "᮰", "᮱", "᮲", "᮳", "᮴", "᮵", "᮶", "᮷", "᮸", "᮹",
     "꣐", "꣑", "꣒", "꣓", "꣔", "꣕", "꣖", "꣗", "꣘", "꣙",
     "꧐", "꧑", "꧒", "꧓", "꧔", "꧕", "꧖", "꧗", "꧘", "꧙",
     "꧰", "꧱", "꧲", "꧳", "꧴", "꧵", "꧶", "꧷", "꧸", "꧹",
     "꯰", "꯱", "꯲", "꯳", "꯴", "꯵", "꯶", "꯷", "꯸", "꯹"}
DigitVal(c) == (CHOOSE i \in DOMAIN DigitChars : DigitChars[i] = c) - 1
\* str.isspace(): the blank, \t, \n, \r, \f, and, written as the characters
\* themselves, U+000B, U+001C to U+001F, U+0085, U+00A0 and U+1680.  The
\* whitespace from U+2000 on cannot be written in a string of the model.
IsSpace(c) == c \in {" ", "\n", "\t", "\r", "\f",
                     "", "", "", "", "", "", " ", " "}
ToLower(c) == IF c \in Range(Uppers)
              THEN Lowers[CHOOSE i \in DOMAIN Uppers : Uppers[i] = c]
              ELSE c
IsAlnum(c) == IsDigit(c) \/ c \in Range(Lowers) \/ c \in Range(Uppers)

\* s[from..] (1-based), the empty text when from is past the end.
Drop(s, from) == SubSeq(s, from, Len(s))
AllDigits(s) == \A i \in DOMAIN s : IsDigit(s[i])
\* The value of a run of decimal digits.
RECURSIVE Num(_)
Num(s) == IF s = <<>> THEN 0
          ELSE 10 * Num(SubSeq(s, 1, Len(s) - 1)) + DigitVal(s[Len(s)])
\* The decimal digits of n >= 0, without padding.
RECURSIVE Dec(_)
Dec(n) == IF n < 10 THEN <<DigitChars[n + 1]>>
          ELSE Dec(n \div 10) \o <<DigitChars[(n % 10) + 1]>>
\* "%02d"
Pad2(n) == IF n < 10 THEN <<"0">> \o Dec(n) ELSE Dec(n)

\* str.strip(): whitespace removed at both ends.
RECURSIVE LStrip(_)
LStrip(s) == IF s # <<>> /\ IsSpace(Head(s)) THEN LStrip(Tail(s)) ELSE s
RECURSIVE RStrip(_)
RStrip(s) == IF s # <<>> /\ IsSpace(s[Len(s)])
             THEN RStrip(SubSeq(s, 1, Len(s) - 1)) ELSE s
Strip(s) == RStrip(LStrip(s))

\* str.replace("Z", "+00:00")
RECURSIVE ReplaceZ(_)
ReplaceZ(s) == IF s = <<>> THEN <<>>
               ELSE (IF Head(s) = "Z" THEN <<"+", "0", "0", ":", "0", "0">>
                     ELSE <<Head(s)>>) \o ReplaceZ(Tail(s))

\* dict.get(key, default)
Get(d, key, default) == IF key \in DOMAIN d THEN d[key] ELSE default

(***************************************************************************)
(* parse_datetime: datetime.fromisoformat(date_string.replace("Z",         *)
(* "+00:00")), None on ValueError.  fromisoformat is CPython 3.11's parser  *)
(* (_datetimemodule.c), followed step by step:                             *)
(*   - the text has 7 characters or more;                                  *)
(*   - the date is YYYY-MM-DD, YYYYMMDD, or an ISO week date YYYY-Www[-D],  *)
(*     YYYYWww[D]; where it ends is decided from characters 5 and 6;       *)
(*   - one separator character of any kind, then the time;                 *)
(*   - the time runs up to the first "Z", "+" or "-"; hours, minutes and   *)
(*     seconds are pairs of digits, with ":" between them if one follows   *)
(*     the hours; what follows is read as a fraction;                      *)
(*   - the zone is "Z" at the end, or a sign and the same grammar.         *)
(* The result keeps the fields as written: an offset is never applied.     *)
(***************************************************************************)
IsLeap(y) == (y % 4 = 0 /\ y % 100 # 0) \/ y % 400 = 0
DaysInMonth(y, m) == IF m = 2 THEN (IF IsLeap(y) THEN 29 ELSE 28)
                     ELSE IF m \in {4, 6, 9, 11} THEN 30 ELSE 31

\* The character at position i of t; "" stands for the end of the text.
At(t, i) == IF i \in DOMAIN t THEN t[i] ELSE ""
\* parse_digits: two decimal digits at position pos of t, and their value.
Has2(t, pos) == pos + 1 <= Len(t) /\ IsDigit(t[pos]) /\ IsDigit(t[pos + 1])
Two(t, pos) == Num(SubSeq(t, pos, pos + 1))

\* The end of parse_hh_mm_ss_ff: the fraction that starts at position p of
\* the part that ends before position e.  Up to six characters of the part
\* must be digits; further digits are skipped.  -1 when they are not, 0
\* when the text ends there, 1 when something is left.
Fraction(t, p, e) ==
    IF ~AllDigits(SubSeq(t, p, IF p + 5 < e THEN p + 5 ELSE e - 1)) THEN -1
    ELSE IF AllDigits(Drop(t, p)) THEN 0 ELSE 1

\* parse_hh_mm_ss_ff on the part of t from position st to before position e:
\* [rv, h, m, s], rv as in the C code (negative: malformed, 0: the text ends
\* with the part, 1: something is left).  Field is a round of the loop over
\* hour, minute and second: i is the field read at position p (the
\* fraction after the loop when i is past 3), sep tells that a ":" followed
\* the hours, v holds the fields read.
BadTime == [rv |-> -1, h |-> 0, m |-> 0, s |-> 0]
RECURSIVE Field(_, _, _, _, _, _)
Field(t, e, i, p, sep, v) ==
    IF i > 3 THEN [rv |-> Fraction(t, p, e), h |-> v[1], m |-> v[2], s |-> v[3]]
    ELSE IF ~Has2(t, p) THEN BadTime
    ELSE LET c == At(t, p + 2)
             colon == IF i = 1 THEN c = ":" ELSE sep
             w == [v EXCEPT ![i] = Two(t, p)]
         IN  IF p + 3 >= e
             THEN [rv |-> IF c = "" THEN 0 ELSE 1, h |-> w[1], m |-> w[2], s |-> w[3]]
             ELSE IF colon /\ c = ":" THEN Field(t, e, i + 1, p + 3, colon, w)
             ELSE IF c \in {".", ","} THEN Field(t, e, 4, p + 3, colon, w)
             ELSE IF ~colon THEN Field(t, e, i + 1, p + 2, colon, w)
             ELSE BadTime
parse_hh_mm_ss_ff(t, st, e) == Field(t, e, 1, st, FALSE, <<0, 0, 0>>)

\* The position of the first "Z", "+" or "-" of t, Len(t) + 1 when there is
\* none.
ZonePos(t) == IF \E i \in DOMAIN t : t[i] \in {"Z", "+", "-"}
              THEN CHOOSE i \in DOMAIN t :
                       /\ t[i] \in {"Z", "+", "-"}
                       /\ \A j \in 1..(i - 1) : t[j] \notin {"Z", "+", "-"}
              ELSE Len(t) + 1

\* parse_isoformat_time on the text after the date separator: tm is the time
\* of day read before position z, zone the offset read after it.  The
\* ranges are those of the constructors of datetime and of timezone.
CheckZone(tm, zone) ==
    IF zone.rv # 0 THEN BadTime
    ELSE IF zone.h * 3600 + zone.m * 60 + zone.s >= 86400 THEN BadTime
    ELSE tm
SplitTime(t, z, tm) ==
    IF tm.rv < 0 \/ tm.h > 23 \/ tm.m > 59 \/ tm.s > 59 THEN BadTime
    ELSE IF z > Len(t) THEN (IF tm.rv = 0 THEN tm ELSE BadTime)
    ELSE IF t[z] = "Z" THEN (IF z = Len(t) THEN tm ELSE BadTime)
    ELSE CheckZone(tm, parse_hh_mm_ss_ff(t, z + 1, Len(t) + 1))
parse_isoformat_time(t) ==
    SplitTime(t, ZonePos(t), parse_hh_mm_ss_ff(t, 1, ZonePos(t)))

\* The proleptic Gregorian ordinal (1 is 0001-01-01) and its inverse; y0 is
\* a year next to the year of the ordinal.
DaysBeforeYear(y) ==
    (y - 1) * 365 + ((y - 1) \div 4) - ((y - 1) \div 100) + ((y - 1) \div 400)
RECURSIVE DaysBeforeMonth(_, _)
DaysBeforeMonth(y, m) ==
    IF m = 1 THEN 0 ELSE DaysBeforeMonth(y, m - 1) + DaysInMonth(y, m - 1)
YearOf(ord, y0) == CHOOSE y \in (y0 - 1)..(y0 + 1) :
                       DaysBeforeYear(y) < ord /\ ord <= DaysBeforeYear(y + 1)
MonthOf(n, y) == CHOOSE m \in 1..12 :
                     DaysBeforeMonth(y, m) < n
                     /\ n <= DaysBeforeMonth(y, m) + DaysInMonth(y, m)
BadDate == [ok |-> FALSE, year |-> 0, month |-> 0, day |-> 0]
\* The date of day n of year y.
DateIn(n, y) == [ok |-> TRUE, year |-> y, month |-> MonthOf(n, y),
                 day |-> n - DaysBeforeMonth(y, MonthOf(n, y))]
ord_to_ymd(ord, y0) == DateIn(ord - DaysBeforeYear(YearOf(ord, y0)), YearOf(ord, y0))
\* The ordinal of the Monday of ISO week 1 of a year whose 1 January is the
\* given ordinal; (ord + 6) % 7 is the weekday, Monday 0, Thursday 3.
Week1Monday(first) ==
    first - ((first + 6) % 7) + (IF (first + 6) % 7 > 3 THEN 7 ELSE 0)
iso_week1_monday(y) == Week1Monday(DaysBeforeYear(y) + 1)
\* A year has a week 53 when it starts on a Thursday, or is a leap year and
\* starts on a Wednesday.
HasWeek53(y) == \/ (DaysBeforeYear(y) + 7) % 7 = 3
                \/ (DaysBeforeYear(y) + 7) % 7 = 2 /\ IsLeap(y)
iso_to_ymd(y, week, day) ==
    IF week < 1 \/ week > 53 \/ (week = 53 /\ ~HasWeek53(y)) THEN BadDate
    ELSE IF day < 1 \/ day > 7 THEN BadDate
    ELSE ord_to_ymd(iso_week1_monday(y) + (week - 1) * 7 + day - 1, y)

\* _find_isoformat_datetime_separator: the number of characters of the date
\* in a text s of 7 characters or more, -1 when there is no such number.
\* DigitsEnd is the first position from p on that holds no digit.
DigitsEnd(s, p) == CHOOSE q \in p..(Len(s) + 1) :
                       /\ \A k \in p..(q - 1) : IsDigit(s[k])
                       /\ q = Len(s) + 1 \/ ~IsDigit(s[q])
WeekSep(n) == IF n < 9 THEN n ELSE IF n % 2 = 0 THEN 7 ELSE 8
SepPos(s) ==
    IF Len(s) = 7 THEN 7
    ELSE IF s[5] = "-"
         THEN (IF s[6] # "W" THEN 10
               ELSE IF Len(s) > 8 /\ s[9] = "-"
                    THEN (IF Len(s) = 9 THEN -1
                          ELSE IF Len(s) > 10 /\ IsDigit(s[11]) THEN 8
                          ELSE 10)
               ELSE 8)
    ELSE IF s[5] = "W" THEN WeekSep(DigitsEnd(s, 8) - 1)
    ELSE 8

\* parse_isoformat_date on the first sep characters of s.  p is where the
\* month or the "W" starts: 6 when a "-" follows the year, else 5.
WeekDate(s, sep, p) ==
    IF ~Has2(s, p + 1) THEN BadDate
    ELSE IF p + 2 >= sep THEN iso_to_ymd(Num(SubSeq(s, 1, 4)), Two(s, p + 1), 1)
    ELSE IF p = 6 /\ At(s, 9) # "-" THEN BadDate
    ELSE IF ~IsDigit(At(s, 2 * p - 2)) THEN BadDate
    ELSE iso_to_ymd(Num(SubSeq(s, 1, 4)), Two(s, p + 1), DigitVal(s[2 * p - 2]))
DateFrom(s, sep, p) ==
    IF At(s, p) = "W" THEN WeekDate(s, sep, p)
    ELSE IF ~Has2(s, p) \/ ~Has2(s, 2 * p - 3) THEN BadDate
    ELSE IF p = 6 /\ s[8] # "-" THEN BadDate
    ELSE [ok |-> TRUE, year |-> Num(SubSeq(s, 1, 4)), month |-> Two(s, p),
          day |-> Two(s, 2 * p - 3)]
parse_isoformat_date(s, sep) ==
    IF ~AllDigits(SubSeq(s, 1, 4)) THEN BadDate
    ELSE DateFrom(s, sep, IF s[5] = "-" THEN 6 ELSE 5)

\* The datetime of a date d that ends after sep characters of s: the ranges
\* are those of the constructor.
DateTime(d, h, m) == Some([year |-> d.year, month |-> d.month, day |-> d.day,
                           hour |-> h, minute |-> m])
WithTime(d, t) == IF t.rv < 0 THEN Nothing ELSE DateTime(d, t.h, t.m)
FromDate(s, sep, d) ==
    IF ~d.ok THEN Nothing
    ELSE IF d.year < 1 \/ d.year > 9999 \/ d.month < 1 \/ d.month > 12 THEN Nothing
    ELSE IF d.day < 1 \/ d.day > DaysInMonth(d.year, d.month) THEN Nothing
    ELSE IF Len(s) <= sep THEN DateTime(d, 0, 0)
    ELSE WithTime(d, parse_isoformat_time(Drop(s, sep + 2)))
fromisoformat(s) ==
    IF Len(s) < 7 \/ SepPos(s) < 0 THEN Nothing
    ELSE FromDate(s, SepPos(s), parse_isoformat_date(s, SepPos(s)))

\* None (Nothing) for a text that is no timestamp, else the datetime.
parse_datetime(date_string) == fromisoformat(ReplaceZ(date_string))

\* dt.strftime("%Y-%m-%d-%H-%M"), "%Y" and "%Y-%m-%d %H:%M"; glibc's %Y does
\* not pad a year below 1000.
strftime_Y(dt) == Dec(dt.year)
DateText(dt, sep) == Dec(dt.year) \o sep \o Pad2(dt.month) \o sep \o Pad2(dt.day)
strftime_prefix(dt) ==
    DateText(dt, <<"-">>) \o <<"-">> \o Pad2(dt.hour) \o <<"-">> \o Pad2(dt.minute)
strftime_comment(dt) ==
    DateText(dt, <<"-">>) \o <<" ">> \o Pad2(dt.hour) \o <<":">> \o Pad2(dt.minute)


(***************************************************************************)
(* extract_post_id: re.search(r"post-(\d+)", entry.get("id", ""))          *)
(***************************************************************************)
Marker == <<"p", "o", "s", "t", "-">>
\* A match of the pattern starts at position i of s.
MatchesAt(s, i) == /\ i + Len(Marker) <= Len(s)
                   /\ SubSeq(s, i, i + Len(Marker) - 1) = Marker
                   /\ s[i + Len(Marker)] \in DecimalDigits
\* The longest run of digits at the head of s (\d+ is greedy).
RECURSIVE DigitRun(_)
DigitRun(s) == IF s # <<>> /\ Head(s) \in DecimalDigits
               THEN <<Head(s)>> \o DigitRun(Tail(s)) ELSE <<>>
\* Group 1 of the leftmost match, None when there is no match.
FirstMatch(s, hits) ==
    IF hits = {} THEN Nothing
    ELSE Some(DigitRun(Drop(s, (CHOOSE i \in hits : \A j \in hits : i <= j)
                               + Len(Marker))))
SearchPostId(s) == FirstMatch(s, {i \in DOMAIN s : MatchesAt(s, i)})
extract_post_id(entry) == SearchPostId(Get(entry, "id", <<>>))

(***************************************************************************)
(* The two library conversions the program calls.  Their code is not part  *)
(* of the repository: they are the converters the specification treats as  *)
(* black boxes, modelled from their documented behaviour on the texts used *)
(* here: ASCII characters, no character references (&amp;, &#38;), and for *)
(* HTML the tags listed below.                                             *)
(***************************************************************************)
\* slugify(title, max_length=50): a comma between two digits is removed,
\* the text is put in lower case, every run of characters that are not
\* letters or digits becomes one "-", no "-" at either end, cut to
\* max_length characters and stripped of "-" again.  before is the
\* character that precedes s in the title.
RECURSIVE SlugRuns(_, _, _)
SlugRuns(s, pending, before) ==
    IF s = <<>> THEN <<>>
    ELSE IF Head(s) = "," /\ IsDigit(before) /\ IsDigit(At(s, 2))
         THEN SlugRuns(Tail(s), pending, Head(s))
    ELSE IF IsAlnum(Head(s))
         THEN (IF pending THEN <<"-">> ELSE <<>>) \o <<ToLower(Head(s))>>
              \o SlugRuns(Tail(s), FALSE, Head(s))
         ELSE SlugRuns(Tail(s), TRUE, Head(s))
RECURSIVE StripHyphens(_)
StripHyphens(s) ==
    IF s # <<>> /\ Head(s) = "-" THEN StripHyphens(Tail(s))
    ELSE IF s # <<>> /\ s[Len(s)] = "-"
         THEN StripHyphens(SubSeq(s, 1, Len(s) - 1))
    ELSE s
Truncate(s, n) == IF Len(s) > n THEN SubSeq(s, 1, n) ELSE s
slugify(text, max_length) ==
    StripHyphens(Truncate(StripHyphens(SlugRuns(text, FALSE, "")), max_length))

\* markdownify(html, heading_style="ATX", strip=["script", "style"]) on the
\* tags used here: a paragraph ends in a blank line, <b> is "**", <h1> is an
\* ATX heading, <br> a hard break; any other tag is dropped and the text it
\* encloses kept.  A tag named in strip (<script>, <style>) is such a tag:
\* strip leaves the tag unconverted, and what it encloses stays as text.
IsTag(x) == Len(x) > 1 /\ x # "\n"
RECURSIVE md(_)
md(html) ==
    IF html = <<>> THEN <<>>
    ELSE (CASE Head(html) = "</p>"  -> <<"\n", "\n">>
            [] Head(html) = "<b>"   -> <<"*", "*">>
            [] Head(html) = "</b>"  -> <<"*", "*">>
            [] Head(html) = "<h1>"  -> <<"#", " ">>
            [] Head(html) = "</h1>" -> <<"\n", "\n">>
            [] Head(html) = "<br>"  -> <<" ", " ", "\n">>
            [] OTHER -> IF IsTag(Head(html)) THEN <<>> ELSE <<Head(html)>>)
         \o md(Tail(html))

(***************************************************************************)
(* generate_folder_name, html_to_markdown, format_comment_date             *)
(***************************************************************************)
generate_folder_name(dt, title) ==
    IF title # <<>> /\ Strip(title) # <<>>
    THEN strftime_prefix(dt) \o <<"-">> \o slugify(title, SLUG_MAX_LENGTH)
    ELSE strftime_prefix(dt)

html_to_markdown(html_content) ==
    IF html_content = <<>> THEN <<>> ELSE md(html_content)

FormatDate(date_string, dt) ==
    IF dt # Nothing THEN strftime_comment(dt[1]) ELSE date_string
format_comment_date(date_string) ==
    FormatDate(date_string, parse_datetime(date_string))

\* The content of an entry: the first content block's value, else the
\* summary, else the empty text.
entry_content(entry) ==
    IF "content" \in DOMAIN entry /\ entry["content"] # <<>>
    THEN Get(entry["content"][1], "value", <<>>)
    ELSE IF "summary" \in DOMAIN entry THEN Get(entry, "summary", <<>>)
    ELSE <<>>

(***************************************************************************)
(* The filesystem: the directories that exist and the files with their     *)
(* content, each under the name its path resolves to.                      *)
(***************************************************************************)
\* os.path.join(a, b): a b that starts with "/" replaces a; otherwise b is
\* appended, after a "/" unless a is empty or ends in one.
Join(a, b) == IF b # <<>> /\ b[1] = "/" THEN b
              ELSE IF a = <<>> \/ a[Len(a)] = "/" THEN a \o b
              ELSE a \o <<"/">> \o b
RECURSIVE JoinAll(_)
JoinAll(parts) == IF Len(parts) = 1 THEN parts[1]
                  ELSE Join(JoinAll(SubSeq(parts, 1, Len(parts) - 1)),
                            parts[Len(parts)])
EmptyFs == [dirs |-> {}, files |-> {}]

\* One component c of a path, after the components comps: an empty one and
\* "." stay where they are, ".." steps back to the parent.
Step(comps, c, absolute) ==
    IF c \in {<<>>, <<".">>} THEN comps
    ELSE IF c # <<".", ".">> THEN Append(comps, c)
    ELSE IF comps # <<>> /\ comps[Len(comps)] # <<".", ".">>
         THEN SubSeq(comps, 1, Len(comps) - 1)
    ELSE IF absolute THEN comps ELSE Append(comps, c)
RECURSIVE Components(_, _, _, _)
Components(path, comps, c, absolute) ==
    IF path = <<>> THEN Step(comps, c, absolute)
    ELSE IF Head(path) = "/"
         THEN Components(Tail(path), Step(comps, c, absolute), <<>>, absolute)
    ELSE Components(Tail(path), comps, Append(c, Head(path)), absolute)
\* A path with nothing to resolve: it does not start with "." and no "/" in
\* it is followed by "/", "." or the end.
Clean(path) ==
    /\ At(path, 1) # "."
    /\ \A j \in DOMAIN path :
           path[j] = "/" => j < Len(path) /\ path[j + 1] \notin {"/", "."}
\* The name the system resolves a path to; the empty text is the working
\* directory.
Resolve(path) ==
    IF Clean(path) THEN path
    ELSE JoinAll(<<IF path[1] = "/" THEN <<"/">> ELSE <<>>>>
                 \o Components(path, <<>>, <<>>, path[1] = "/"))
\* The positions where the path and its ancestors end: before each "/"
\* and at the end of the path.
Cuts(path) == {j \in 1..Len(path) : j = Len(path) \/ path[j + 1] = "/"}
\* The path and its ancestors, resolved, as far as they end before position
\* stop.
Ancestors(path, stop) ==
    IF Clean(path)
    THEN {SubSeq(path, 1, k) : k \in {j \in Cuts(path) : j < stop}}
    ELSE {Resolve(SubSeq(path, 1, k)) : k \in {j \in Cuts(path) : j < stop}}
\* The path or one of its ancestors is a file.
Blocked(fsys, path) ==
    Ancestors(path, Len(path) + 1) \cap {f.path : f \in fsys.files} # {}
\* Where the outermost of them that is a file ends; past the end of the path
\* when none is.
FirstFile(fsys, path) ==
    IF ~Blocked(fsys, path) THEN Len(path) + 1
    ELSE CHOOSE k \in Cuts(path) :
             /\ Resolve(SubSeq(path, 1, k)) \in {f.path : f \in fsys.files}
             /\ Ancestors(path, k) \cap {f.path : f \in fsys.files} = {}
\* The directories os.makedirs makes of the path and its ancestors that end
\* before position stop; the working directory, the root and a path that
\* ends in ".." exist already.
Made(path, stop) ==
    {d \in Ancestors(path, stop) :
        /\ d \notin {<<>>, <<"/">>}
        /\ ~(/\ At(d, Len(d)) = "." /\ At(d, Len(d) - 1) = "."
             /\ At(d, Len(d) - 2) \in {"", "/"})}
\* What follows position k of the path is "." components and nothing else.
\* os.makedirs returns without a mkdir for a last component "." whose
\* parent it has just tried to make, also when that attempt found a file
\* (the FileExistsError of the recursive call is passed over).
OnlyDots(path, k) ==
    /\ \E j \in (k + 1)..Len(path) : path[j] = "."
    /\ \A j \in (k + 1)..Len(path) :
           /\ path[j] \in {"/", "."}
           /\ path[j] = "." => At(path, j + 1) # "."
\* os.makedirs(path, exist_ok=True): [fs, raised].  The directories are made
\* from the outermost on: each ancestor that is missing, then the path.
\* When the path or an ancestor is a file the call raises OSError, and the
\* directories made before that one was reached stay; the empty path
\* raises too.  A fault is an OSError of another kind (no permission, no
\* space): "makedirs" is raised by the first mkdir of the call, so that
\* nothing is made, "mkdir" by the last, that of the path itself, after its
\* ancestors were made.
makedirs(fsys, path, fault) ==
    IF fault = "makedirs" THEN [fs |-> fsys, raised |-> TRUE]
    ELSE [fs |-> [fsys EXCEPT !.dirs = @ \cup
                     {d \in Made(path, FirstFile(fsys, path)) :
                         fault = "mkdir" => d # Resolve(path)}],
          raised |-> \/ fault = "mkdir"
                     \/ path = <<>>
                     \/ /\ Blocked(fsys, path)
                        /\ ~(/\ Made(path, FirstFile(fsys, path)) \ fsys.dirs # {}
                             /\ OnlyDots(path, FirstFile(fsys, path)))]
\* Faulty variant: a file that exists is left as it is.
WriteFile_keep(fsys, path, content) ==
    IF \E f \in fsys.files : f.path = Resolve(path) THEN fsys
    ELSE [fsys EXCEPT !.files =
              @ \cup {[path |-> Resolve(path), content |-> content]}]
\* Faulty variant: the file is opened for appending.
WriteFile_append(fsys, path, content) ==
    [fsys EXCEPT !.files =
        {f \in @ : f.path # Resolve(path)}
        \cup {[path |-> Resolve(path),
               content |-> (IF \E f \in @ : f.path = Resolve(path)
                            THEN (CHOOSE f \in @ :
                                      f.path = Resolve(path)).content
                            ELSE <<>>) \o content]}]
\* open(path, "w") ... write(content): the file is created or replaced.
WriteFile(fsys, path, content) ==
    [fsys EXCEPT !.files = {f \in @ : f.path # Resolve(path)}
                           \cup {[path |-> Resolve(path), content |-> content]}]
\* The files of the tree, by the name they are stored under.
HasFile(fsys, path) == \E f \in fsys.files : f.path = path
FileContent(fsys, path) == (CHOOSE f \in fsys.files : f.path = path).content
INDEX_MD == <<"i", "n", "d", "e", "x", ".", "m", "d">>
COMMENTS_MD == <<"c", "o", "m", "m", "e", "n", "t", "s", ".", "m", "d">>

(***************************************************************************)
(* The documents process_post writes                                       *)
(***************************************************************************)
NL == <<"\n">>
Anonymous == <<"A", "n", "o", "n", "y", "m", "o", "u", "s">>
CommentsHeading == <<"#", " ", "C", "o", "m", "m", "e", "n", "t", "s">> \o NL \o NL
Separator == <<"-", "-", "-">> \o NL \o NL

\* Lines 122-126: the optional title heading, the trimmed body, a newline.
index_document(title, markdown_content) ==
    (IF title # <<>> THEN <<"#", " ">> \o title \o NL \o NL ELSE <<>>)
    \o Strip(markdown_content) \o NL

\* Lines 139-153: the section of one comment.
Section(author, formatted_date, comment_md) ==
    <<"#", "#", " ">> \o author \o <<" ", "-", " ">> \o formatted_date
    \o NL \o NL \o Strip(comment_md) \o NL \o NL
comment_section(comment) ==
    Section(Get(Get(comment, "author_detail", <<>>), "name", Anonymous),
            format_comment_date(Get(comment, "published", <<>>)),
            html_to_markdown(entry_content(comment)))

\* Faulty variant: a separator after every comment, also the last.
RECURSIVE comment_sections_trailing(_, _)
comment_sections_trailing(comments, i) ==
    IF i >= Len(comments) THEN <<>>
    ELSE comment_section(comments[i + 1]) \o Separator
         \o comment_sections_trailing(comments, i + 1)
\* Lines 138-156: the loop over enumerate(comments), from index i (0-based).
RECURSIVE comment_sections(_, _)
comment_sections(comments, i) ==
    IF i >= Len(comments) THEN <<>>
    ELSE comment_section(comments[i + 1])
         \o (IF i < Len(comments) - 1 THEN Separator ELSE <<>>)
         \o comment_sections(comments, i + 1)

comments_document(comments) == CommentsHeading \o comment_sections(comments, 0)

(***************************************************************************)
(* fetch_comments.  res is what feedparser.parse does for the comment feed *)
(* of the post: [kind, bozo, entries], kind "raise" when it raises.        *)
(***************************************************************************)
comments_url(post_id) ==
    <<"https://theguitarman.blogspot.com/feeds/">> \o post_id
    \o <<"/comments/default">>
Event(op, arg) == [op |-> op, arg |-> arg]
\* [comments, events, raised]: what is returned, the network calls made, and
\* whether an exception leaves the function instead.
Fetched(comments, events, raised) ==
    [comments |-> comments, events |-> events, raised |-> raised]
\* Faulty variant: the exception of the fetch is not caught.
FetchFrom_uncaught(res, ev) ==
    IF res.kind = "raise" THEN Fetched(<<>>, ev, TRUE)
    ELSE IF res.bozo /\ res.entries = <<>> THEN Fetched(<<>>, ev, FALSE)
    ELSE Fetched(res.entries, ev, FALSE)
\* Lines 57-64: the exception of the fetch is caught.
FetchFrom(res, ev) ==
    IF res.kind = "raise" THEN Fetched(<<>>, ev, FALSE)
    ELSE IF res.bozo /\ res.entries = <<>> THEN Fetched(<<>>, ev, FALSE)
    ELSE Fetched(res.entries, ev, FALSE)
\* Line 52, "if not post_id": None and the empty text are no identifier.
fetch_comments(post_id, res) ==
    IF post_id = Nothing \/ post_id[1] = <<>> THEN Fetched(<<>>, <<>>, FALSE)
    ELSE FetchFrom(res, <<Event("fetch_comments", comments_url(post_id[1]))>>)

(***************************************************************************)
(* process_post(entry, output_base) on filesystem fsys.  fault names the   *)
(* call that raises OSError for a reason the tree does not show, if any:   *)
(* "makedirs" or "mkdir" (line 117), "index" (the open of line 122) or     *)
(* "comments" (the open of line 135).                                      *)
(* The result is [fs, events, result, folder]: result is "ok" when a       *)
(* folder path is returned, "skipped" when None is returned, "error" when  *)
(* an exception leaves the function.                                       *)
(***************************************************************************)
Returned(fsys, events, result, folder) ==
    [fs |-> fsys, events |-> events, result |-> result, folder |-> folder]

\* Faulty variant: comments.md is written also when there is no comment.
WriteComments_always(folder_path, fsys, events, comments, fault) ==
    IF \/ fault = "comments"
       \/ Resolve(Join(folder_path, COMMENTS_MD)) \in fsys.dirs
    THEN Returned(fsys, events, "error", <<>>)
    ELSE Returned(WriteFile(fsys, Join(folder_path, COMMENTS_MD),
                            comments_document(comments)),
                  Append(events, Event("write", Join(folder_path, COMMENTS_MD))),
                  "ok", folder_path)
\* Lines 133-156, with the index written: fsys and events are the state and
\* the calls so far.
WriteComments(folder_path, fsys, events, comments, fault) ==
    IF comments = <<>> THEN Returned(fsys, events, "ok", folder_path)
    ELSE IF \/ fault = "comments"
            \/ Resolve(Join(folder_path, COMMENTS_MD)) \in fsys.dirs
    THEN Returned(fsys, events, "error", <<>>)
    ELSE Returned(WriteFile(fsys, Join(folder_path, COMMENTS_MD),
                            comments_document(comments)),
                  Append(events, Event("write", Join(folder_path, COMMENTS_MD))),
                  "ok", folder_path)

\* Faulty variant: the comment feed is fetched without the delay.
WithComments_nodelay(folder_path, fsys, events, fetched, fault) ==
    IF fetched.raised
    THEN Returned(fsys, events \o fetched.events, "error", <<>>)
    ELSE WriteComments(folder_path, fsys, events \o fetched.events,
                       fetched.comments, fault)
\* Lines 128-131: an exception that left fetch_comments would leave
\* process_post too.
WithComments(folder_path, fsys, events, fetched, fault) ==
    IF fetched.raised
    THEN Returned(fsys, events \o <<Event("sleep", <<>>)>> \o fetched.events,
                  "error", <<>>)
    ELSE WriteComments(folder_path, fsys,
                       events \o <<Event("sleep", <<>>)>> \o fetched.events,
                       fetched.comments, fault)
\* Faulty variant: the delay and the call are made without looking at
\* post_id.
FetchAndWrite_always(folder_path, fsys, events, post_id, res, fault) ==
    WithComments(folder_path, fsys, events, fetch_comments(post_id, res), fault)
\* Line 128, "if post_id".
FetchAndWrite(folder_path, fsys, events, post_id, res, fault) ==
    IF post_id = Nothing \/ post_id[1] = <<>>
    THEN Returned(fsys, events, "ok", folder_path)
    ELSE WithComments(folder_path, fsys, events, fetch_comments(post_id, res),
                      fault)

\* Lines 119-126.
WriteIndex(entry, title, folder_path, fsys, events, res, fault) ==
    IF fault = "index" \/ Resolve(Join(folder_path, INDEX_MD)) \in fsys.dirs
    THEN Returned(fsys, events, "error", <<>>)
    ELSE FetchAndWrite(folder_path,
             WriteFile(fsys, Join(folder_path, INDEX_MD),
                       index_document(title,
                                      html_to_markdown(entry_content(entry)))),
             Append(events, Event("write", Join(folder_path, INDEX_MD))),
             extract_post_id(entry), res, fault)

\* Lines 117-119: made is what os.makedirs(folder_path) did; its exception
\* leaves process_post.
InFolder(entry, title, folder_path, made, res, fault) ==
    IF made.raised THEN Returned(made.fs, <<>>, "error", <<>>)
    ELSE WriteIndex(entry, title, folder_path, made.fs,
                    <<Event("makedirs", folder_path)>>, res, fault)

\* Faulty variant: the folder name is left out of the path, so the posts of
\* a year share one folder.
MakeFolder_year(entry, title, parts, fsys, res, fault) ==
    InFolder(entry, title, JoinAll(SubSeq(parts, 1, 2)),
             makedirs(fsys, JoinAll(SubSeq(parts, 1, 2)), fault), res, fault)
\* Lines 115-117.
MakeFolder(entry, title, parts, fsys, res, fault) ==
    InFolder(entry, title, JoinAll(parts),
             makedirs(fsys, JoinAll(parts), fault), res, fault)

\* Faulty variant: a post without timestamp is filed under "undated".
Dated_undated(entry, title, output_base, dt, fsys, res, fault) ==
    MakeFolder(entry, title,
               IF dt = Nothing
               THEN <<output_base, <<"u", "n", "d", "a", "t", "e", "d">>>>
               ELSE <<output_base, strftime_Y(dt[1]),
                      generate_folder_name(dt[1], title)>>,
               fsys, res, fault)
\* Lines 108-114.
Dated(entry, title, output_base, dt, fsys, res, fault) ==
    IF dt = Nothing THEN Returned(fsys, <<>>, "skipped", <<>>)
    ELSE MakeFolder(entry, title,
                    <<output_base, strftime_Y(dt[1]),
                      generate_folder_name(dt[1], title)>>,
                    fsys, res, fault)

process_post(entry, output_base, fsys, res, fault) ==
    Dated(entry, Strip(Get(entry, "title", <<>>)), output_base,
          parse_datetime(Get(entry, "published", <<>>)), fsys, res, fault)

(***************************************************************************)
(* The inputs: the posts of the blog, the comments, the shapes of a feed   *)
(* page, the results of a comment-feed fetch, and the bounds.              *)
(***************************************************************************)
MaxFetches == 3
MaxPosts == 3
MaxComments == 2
MaxFaults == 1

IdC == <<"p", "o", "s", "t", "-", "9">>
TitleA == <<"H", "i">>
TitleB == <<" ", "h", "i", "!", " ">>
DateK3 == <<"2", "0", "0", "9", "-", "0", "2", "-", "3", "0", "T", "1", "0", ":",
            "0", "0", ":", "0", "0", "Z">>

\* A post with identifier, title, timestamp, and a content block next to a
\* summary.
PostA == [id |-> <<"b", "l", "o", "g", "-", "1", ".",
                   "p", "o", "s", "t", "-", "4", "2">>,
          title |-> TitleA,
          published |-> <<"2", "0", "0", "9", "-", "0", "3", "-", "1", "5", "T",
                          "1", "0", ":", "3", "0", ":", "0", "0", "Z">>,
          content |-> <<[value |-> <<"<p>", "H", "e", "y", "</p>">>]>>,
          summary |-> <<"s">>]
\* A post of the same minute whose title has the same slug; summary only.
\* Its identifier is written with a digit of another script (U+06F3) and a
\* 7.
PostB == [id |-> <<"p", "o", "s", "t", "-", "۳", "7">>, title |-> TitleB,
          published |-> <<"2", "0", "0", "9", "-", "0", "3", "-", "1", "5", "T",
                          "1", "0", ":", "3", "0", ":", "5", "9", ".", "0", "0", "1",
                          "-", "0", "7", ":", "0", "0">>,
          summary |-> <<"<b>", "y", "o", "</b>", "<script>", "x", "</script>">>]
\* A post whose timestamp is no timestamp.
PostC == [id |-> IdC, title |-> <<"O", "l", "d">>,
          published |-> <<"y", "e", "s", "t", "e", "r", "d", "a", "y">>,
          content |-> <<[value |-> <<"<p>", "o", "</p>">>]>>]
\* A post without title, with an identifier that holds no "post-<digits>", an
\* empty content list and a date without time.
PostD == [id |-> <<"t", "a", "g", ":", "p", "o", "s", "t", "-">>,
          published |-> <<"2", "0", "1", "0", "-", "1", "2", "-", "0", "1">>,
          content |-> <<>>, summary |-> <<" ", "d", "<br>">>]
\* A post without a published field and without an id field.
PostE == [title |-> TitleA, summary |-> <<"e">>]
\* The blogs of the runs that are about the posts: the posts in two orders.
RichBlogs == {<<PostA, PostC, PostB, PostD, PostE>>,
              <<PostD, PostE, PostA, PostC, PostB>>}
\* Posts that process_post skips, for the runs that are about the walk.
LightPosts == <<PostC, PostE, [id |-> IdC, published |-> DateK3]>>

\* The next n posts of the blog after the first c, going round.
BlogSlice(posts_, c, n) == [k \in 1..n |-> posts_[((c + k - 1) % Len(posts_)) + 1]]

CommentK1 == [author_detail |-> [name |-> <<"B", "o", "b">>],
              published |-> <<"2", "0", "0", "9", "-", "0", "3", "-", "1", "6", "T",
                              "0", "8", ":", "0", "5", ":", "0", "0", "Z">>,
              content |-> <<[value |-> <<"<p>", "o", "k", "</p>">>]>>,
              summary |-> <<"n", "o">>]
CommentK2 == [published |-> <<"n", "/", "a">>, summary |-> <<"h", "m">>]
CommentK3 == [author_detail |-> [email |-> <<"x">>], published |-> DateK3,
              content |-> <<>>]
CommentStream == <<CommentK1, CommentK2, CommentK3, CommentK1>>
\* The results of a comment-feed fetch: an exception, a feed of up to
\* MaxComments comments, and a feed in error with no entry or with one.
CommentResults ==
    {[kind |-> "raise", bozo |-> TRUE, entries |-> <<>>]}
    \cup {[kind |-> "ok", bozo |-> FALSE, entries |-> SubSeq(CommentStream, 1, n)] :
            n \in 0..MaxComments}
    \cup {[kind |-> "ok", bozo |-> TRUE, entries |-> SubSeq(CommentStream, 1, n)] :
            n \in 0..1}
\* The result used where no comment feed is fetched.
NoResult == [kind |-> "ok", bozo |-> FALSE, entries |-> <<>>]

StartUrl == BLOG_FEED_URL \o "?max-results=" \o ToString(MAX_RESULTS_PER_PAGE)
Url2 == BLOG_FEED_URL \o "?start-index=26&max-results=25"
NextTo(u) == [rel |-> "next", href |-> u]
SelfLink == [rel |-> "self", href |-> BLOG_FEED_URL]
\* Link collections with pagination only towards one further page.
PlainLinks == {<<>>, <<SelfLink, NextTo(Url2)>>}
\* Link collections of every kind: none, no "next", a "next" after another
\* relation, two "next" links, a "next" back to the start, a "next" without
\* href and one with an empty href.
AllLinks == {<<>>, <<SelfLink>>, <<SelfLink, NextTo(Url2)>>,
             <<NextTo(BLOG_FEED_URL \o "?start-index=51&max-results=25"),
               NextTo(Url2)>>,
             <<NextTo(StartUrl)>>,
             <<[rel |-> "next"]>>, <<NextTo("")>>}
\* The shapes of what feedparser.parse does for a page: it returns a feed
\* (kind "ok") with the error flag, the number of entries and the links, or
\* it raises (kind "raise"; the other fields stand for nothing then).
PageShapes(links) ==
    [kind : {"ok"}, bozo : BOOLEAN, size : 0..MaxPosts, links : links]
    \cup {[kind |-> "raise", bozo |-> FALSE, size |-> 0, links |-> <<>>]}
\* The pages of a feed without errors and without empty pages, and the
\* fetch that raises.
PlainShapes ==
    [kind : {"ok"}, bozo : {FALSE}, size : 1..MaxPosts, links : PlainLinks]
    \cup {[kind |-> "raise", bozo |-> FALSE, size |-> 0, links |-> <<>>]}
Faults == {"none", "makedirs", "mkdir", "index", "comments"}

(***************************************************************************)
(* State                                                                   *)
(***************************************************************************)
VARIABLES
    pc,         \* where main is: "start", "walk", "walked", "process", "done"
                \* ("crashed" when an exception has left it)
    run,        \* 1 in the first run of the program, 2 in the second
    url,        \* fetch_all_posts: url, Nothing or Some(u)
    posts,      \* fetch_all_posts: posts, then main: posts
    idx,        \* main: the 1-based index of the entry processed next
    ret,        \* Nothing until main returns, then Some(v) of the value
                \* returned: Some(Nothing) when it returned None
    fs,         \* the filesystem
    blog,       \* environment: the posts of the blog, newest first
    cursor,     \* environment: how many posts the pages served so far hold
    feed,       \* environment: the page behind each URL fetched so far
    cfeed,      \* environment: the fetch result behind each comment feed
    nfaults,    \* environment: the number of OSErrors raised so far
    log,        \* history: the network calls, delays and writes of this run
    attempted,  \* history: the entries handed to process_post in this run
    outcomes,   \* history: the result, folder and calls of each of them
    fsStart,    \* history: the filesystem when this run began
    call        \* a single application of generate_folder_name:
                \* its arguments, then its result

vars == <<pc, run, url, posts, idx, ret, fs, blog, cursor, feed, cfeed,
          nfaults, log, attempted, outcomes, fsStart, call>>

\* "while url", "if url": neither None nor the empty string.
Truthy(u) == u # Nothing /\ u[1] # ""
Known(u) == \E e \in feed : e.url = u
PageOf(u) == (CHOOSE e \in feed : e.url = u).page
ResultOf(id) == (CHOOSE e \in cfeed : e.post_id = id).result
NumFetches == Cardinality({k \in DOMAIN log : log[k].op = "fetch"})

\* What a previous run over an older state of the blog left behind: the
\* folder of PostA with both documents, and the folder of a post that the
\* feed no longer holds.
OldFolder == <<OUTPUT_DIR, <<"2", "0", "0", "8">>,
               <<"2", "0", "0", "8", "-", "0", "1", "-", "0", "1", "-", "0", "0",
                 "-", "0", "0", "-", "g", "o", "n", "e">>>>
FolderA == <<OUTPUT_DIR, <<"2", "0", "0", "9">>,
             <<"2", "0", "0", "9", "-", "0", "3", "-", "1", "5", "-", "1", "0",
               "-", "3", "0", "-", "h", "i">>>>
OldFs ==
    LET d == makedirs(makedirs(EmptyFs, JoinAll(OldFolder), "none").fs,
                      JoinAll(FolderA), "none").fs
        a == WriteFile(d, Join(JoinAll(OldFolder), INDEX_MD),
                       index_document(<<"G", "o", "n", "e">>, <<"o", "l", "d">>))
        b == WriteFile(a, Join(JoinAll(FolderA), INDEX_MD),
                       index_document(TitleA, <<"o", "l", "d">>))
    IN  WriteFile(b, Join(JoinAll(FolderA), COMMENTS_MD),
                  comments_document(<<CommentK2>>))

\* The first run starts on an empty output root over any of the blogs, or
\* on what the previous run left over the blog given, or where a file has
\* the name of the output root.
InitWith(blogs, oldBlog) ==
    /\ pc = "start" /\ run = 1 /\ url = Nothing /\ posts = <<>> /\ idx = 1
    /\ ret = Nothing
    /\ \/ fs = EmptyFs /\ blog \in blogs
       \/ fs = OldFs /\ blog = oldBlog
       \/ fs = WriteFile(EmptyFs, OUTPUT_DIR, <<>>) /\ blog = oldBlog
    /\ cursor = 0 /\ feed = {} /\ cfeed = {} /\ nfaults = 0
    /\ log = <<>> /\ attempted = <<>> /\ outcomes = <<>>
    /\ fsStart = fs
    /\ call = <<>>

(***************************************************************************)
(* Operations                                                              *)
(***************************************************************************)
\* Lines 33-37: the href of the first link whose rel is "next", else None.
RECURSIVE next_link(_)
next_link(links) ==
    IF links = <<>> THEN Nothing
    ELSE IF "rel" \in DOMAIN Head(links) /\ Head(links).rel = "next"
         THEN (IF "href" \in DOMAIN Head(links)
               THEN Some(Head(links).href) ELSE Nothing)
         ELSE next_link(Tail(links))

\* Faulty variant: every fetch that reports an error counts as failed.
fetch_failed_bozo(page) == page.bozo
\* Faulty variant: a failed fetch is not noticed.
fetch_failed_never(page) == FALSE
\* Lines 26-28: the fetch counts as failed.
fetch_failed(page) == page.bozo /\ page.entries = <<>>
\* Line 30: posts.extend(feed.entries)
extend(posts_, entries) == posts_ \o entries
\* Faulty variant: the delay is made after every page, also the last.
delay_always(next) == <<Event("sleep", <<>>)>>
\* Lines 39-40: the delay before the next fetch.
delay_before(next) == IF Truthy(next) THEN <<Event("sleep", <<>>)>> ELSE <<>>
\* Faulty variant: an exception of process_post is not caught.
after_post_uncaught(result, i, n) ==
    IF result = "error" THEN "crashed" ELSE IF i = n THEN "done" ELSE "process"
\* Lines 173-182: where main is after process_post ended with result on the
\* idx-th of n entries; "crashed" stands for an exception that leaves main.
after_post(result, i, n) == IF i = n THEN "done" ELSE "process"

\* main up to the first fetch (lines 162-163, 19-20); a second run starts
\* the same way.
Start ==
    /\ pc = "start"
    /\ posts' = <<>>
    /\ url' = Some(StartUrl)
    /\ pc' = "walk"
    /\ UNCHANGED <<run, idx, ret, fs, blog, cursor, feed, cfeed, nfaults, log,
                   attempted, outcomes, fsStart, call>>

\* One iteration of the loop of fetch_all_posts (lines 22-40).  The page
\* behind a URL fetched before is the page served then; otherwise the feed
\* serves a page of the given shape with the next posts of the blog.  The
\* call of line 24 is in no try: when it raises, the exception leaves
\* fetch_all_posts and main.
ServePage(shape) ==
    IF Known(url[1]) THEN PageOf(url[1])
    ELSE [kind |-> shape.kind, bozo |-> shape.bozo, links |-> shape.links,
          entries |-> BlogSlice(blog, cursor, shape.size)]
FetchPage(shape) ==
    /\ pc = "walk"
    /\ NumFetches < MaxFetches
    /\ \E page \in {ServePage(shape)}, next \in {next_link(ServePage(shape).links)} :
           /\ shape = [kind |-> page.kind, bozo |-> page.bozo,
                       size |-> Len(page.entries), links |-> page.links]
           /\ Len(posts) + Len(page.entries) <= MaxPosts
           /\ feed' = feed \cup {[url |-> url[1], page |-> page]}
           /\ cursor' = IF Known(url[1]) THEN cursor ELSE cursor + shape.size
           /\ IF page.kind = "raise"
              THEN /\ log' = log \o <<Event("fetch", url)>>
                   /\ pc' = "crashed"
                   /\ UNCHANGED <<posts, url>>
              ELSE IF fetch_failed(page)
              THEN /\ log' = log \o <<Event("fetch", url)>>
                   /\ pc' = "walked"
                   /\ UNCHANGED <<posts, url>>
              ELSE /\ posts' = extend(posts, page.entries)
                   /\ url' = next
                   /\ log' = log \o <<Event("fetch", url)>>
                             \o delay_before(next)
                   /\ pc' = IF Truthy(next) THEN "walk" ELSE "walked"
    /\ UNCHANGED <<run, idx, ret, fs, blog, cfeed, nfaults, attempted, outcomes,
                   fsStart, call>>

\* main after the walk (lines 164-172): return when there is no post, else
\* create the output root and enter the loop.  os.makedirs(OUTPUT_DIR) of
\* line 170 is in no try: when it raises (fault "makedirs", or a file of
\* that name is in the way) the exception leaves main.
\* Faulty variant: main goes on without posts.
no_posts_never(posts_) == FALSE
\* Line 166: if not posts
no_posts(posts_) == posts_ = <<>>
AfterWalk(fault) ==
    /\ pc = "walked"
    /\ fault # "none" => ~no_posts(posts) /\ nfaults < MaxFaults
    /\ \E made \in {makedirs(fs, OUTPUT_DIR, fault)} :
           IF no_posts(posts)
           THEN /\ pc' = "done" /\ ret' = Some(Nothing)
                /\ UNCHANGED <<fs, log>>
           ELSE IF made.raised
           THEN /\ pc' = "crashed" /\ ret' = ret
                /\ fs' = made.fs
                /\ log' = log
           ELSE /\ pc' = "process" /\ ret' = ret
                /\ fs' = made.fs
                /\ log' = log \o <<Event("makedirs", OUTPUT_DIR)>>
    /\ nfaults' = IF fault = "none" THEN nfaults ELSE nfaults + 1
    /\ idx' = 1
    /\ UNCHANGED <<run, url, posts, blog, cursor, feed, cfeed,
                   attempted, outcomes, fsStart, call>>

\* process_post on this entry gets as far as the comment fetch: dt is the
\* parsed timestamp, post_id the extracted identifier.
FetchesComments(dt, post_id, fault) ==
    /\ dt # Nothing /\ fault \notin {"makedirs", "mkdir", "index"}
    /\ post_id # Nothing /\ post_id[1] # <<>>

\* The call named by fault is made when process_post runs with this
\* comment-fetch result.
FaultPossible(dt, post_id, res, fault) ==
    \/ fault = "none"
    \/ fault \in {"makedirs", "mkdir", "index"} /\ dt # Nothing
    \/ /\ fault = "comments"
       /\ FetchesComments(dt, post_id, fault)
       /\ fetch_comments(post_id, res).comments # <<>>

\* One iteration of the loop of main (lines 173-182): process_post on the
\* next entry, any exception caught; after the last entry main returns.
ProcessPost(res, fault) ==
    /\ pc = "process"
    /\ fault # "none" => nfaults < MaxFaults
    /\ \E dt \in {parse_datetime(Get(posts[idx], "published", <<>>))},
          post_id \in {extract_post_id(posts[idx])} :
           /\ FaultPossible(dt, post_id, res, fault)
           /\ IF FetchesComments(dt, post_id, fault)
              THEN /\ \A e \in cfeed : e.post_id = post_id[1] => res = e.result
                   /\ cfeed' = cfeed \cup {[post_id |-> post_id[1], result |-> res]}
              ELSE /\ res = NoResult
                   /\ cfeed' = cfeed
    /\ \E r \in {process_post(posts[idx], OUTPUT_DIR, fs, res, fault)} :
           /\ fs' = r.fs
           /\ log' = log \o r.events
           /\ outcomes' = Append(outcomes, [result |-> r.result,
                                            folder |-> r.folder,
                                            events |-> r.events])
           /\ pc' = after_post(r.result, idx, Len(posts))
           /\ ret' = IF after_post(r.result, idx, Len(posts)) = "done"
                     THEN Some(Nothing) ELSE ret
    /\ attempted' = Append(attempted, posts[idx])
    /\ nfaults' = IF fault = "none" THEN nfaults ELSE nfaults + 1
    /\ idx' = idx + 1
    /\ UNCHANGED <<run, url, posts, blog, cursor, feed, fsStart, call>>

\* The program is run a second time.
Rerun ==
    /\ pc = "done" /\ run = 1
    /\ run' = 2
    /\ pc' = "start" /\ url' = Nothing /\ posts' = <<>> /\ idx' = 1
    /\ ret' = Nothing
    /\ log' = <<>> /\ attempted' = <<>> /\ outcomes' = <<>>
    /\ fsStart' = fs
    /\ UNCHANGED <<fs, blog, cursor, feed, cfeed, nfaults, call>>

\* The whole program over a blog of posts of every kind, with plain
\* pagination; any call that is in no try may raise.
Init == InitWith(RichBlogs, <<PostA, PostC, PostB, PostD, PostE>>)
Next ==
    \/ Start
    \/ \E shape \in PlainShapes : FetchPage(shape)
    \/ \E fault \in {"none", "makedirs"} : AfterWalk(fault)
    \/ \E res \in CommentResults \cup {NoResult}, fault \in Faults :
           ProcessPost(res, fault)
    \/ Rerun
Spec == Init /\ [][Next]_vars

\* The whole program over posts that are all skipped, with pagination of
\* every kind.
WalkInit == InitWith({LightPosts}, LightPosts)
WalkNext ==
    \/ Start
    \/ \E shape \in PageShapes(AllLinks) : FetchPage(shape)
    \/ \E fault \in {"none", "makedirs"} : AfterWalk(fault)
    \/ \E res \in {NoResult}, fault \in Faults : ProcessPost(res, fault)
    \/ Rerun
WalkSpec == WalkInit /\ [][WalkNext]_vars

\* The whole program over a feed whose pages and comment feeds may report
\* an error (bozo) with or without entries; no filesystem call fails for a
\* reason the tree does not show.
BozoShapes == [kind : {"ok"}, bozo : BOOLEAN, size : 0..MaxPosts,
               links : PlainLinks]
BozoResults ==
    {[kind |-> "ok", bozo |-> b, entries |-> SubSeq(CommentStream, 1, n)] :
        b \in BOOLEAN, n \in 0..MaxComments}
BozoInit == InitWith({<<PostA, PostC, PostB, PostD, PostE>>},
                     <<PostA, PostC, PostB, PostD, PostE>>)
BozoNext ==
    \/ Start
    \/ \E shape \in BozoShapes : FetchPage(shape)
    \/ \E fault \in {"none"} : AfterWalk(fault)
    \/ \E res \in BozoResults, fault \in {"none"} : ProcessPost(res, fault)
    \/ Rerun
BozoSpec == BozoInit /\ [][BozoNext]_vars

\* The whole program over comment feeds whose comments have dates and
\* authors of every kind: a date of the year 5, a text that is no date, an
\* impossible date, no date; an author name, details without a name, no
\* details.  No filesystem call fails for a reason the tree does not show.
CommentK4 == [author_detail |-> [name |-> <<"B", "o", "b">>],
              published |-> <<"0", "0", "0", "5", "-", "0", "1", "-", "0", "2",
                              "T", "0", "3", ":", "0", "4", ":", "0", "0", "Z">>,
              summary |-> <<"o", "l", "d">>]
CommentK5 == [summary |-> <<"?">>]
DatedStreams == {CommentStream, <<CommentK4, CommentK3, CommentK5>>,
                 <<CommentK3, CommentK5, CommentK2>>}
DatedResults ==
    {[kind |-> "ok", bozo |-> FALSE, entries |-> SubSeq(stream, 1, n)] :
        stream \in DatedStreams, n \in 0..MaxComments}
CommentNext ==
    \/ Start
    \/ \E shape \in PlainShapes : FetchPage(shape)
    \/ \E fault \in {"none"} : AfterWalk(fault)
    \/ \E res \in DatedResults, fault \in {"none"} : ProcessPost(res, fault)
    \/ Rerun
CommentSpec == BozoInit /\ [][CommentNext]_vars

(***************************************************************************)
(* generate_folder_name(dt, title) on its own, over timestamps at the ends *)
(* of every field and titles of every kind.                                *)
(***************************************************************************)
RECURSIVE Repeat(_, _)
Repeat(text, n) == IF n = 0 THEN <<>> ELSE text \o Repeat(text, n - 1)
NameDates == [year : {5, 999, 1000, 2009}, month : {1, 12}, day : {1, 31},
              hour : {0, 23}, minute : {0, 59}]
NameTitles ==
    {<<>>, <<" ", " ">>, TitleA, TitleB, <<"?", "!">>, <<"A", " ", "-", " ", "b">>,
     <<"1", ",", "5", ",", " ", "x">>,
     Repeat(<<"a", "b", "c", "d", "e", "f", "g", "h", "i", " ">>, 6),
     Repeat(<<"Z", "9">>, 30)}
NameInit ==
    /\ pc = "start" /\ run = 1 /\ url = Nothing /\ posts = <<>> /\ idx = 1
    /\ ret = Nothing /\ fs = EmptyFs /\ blog = LightPosts
    /\ cursor = 0 /\ feed = {} /\ cfeed = {} /\ nfaults = 0
    /\ log = <<>> /\ attempted = <<>> /\ outcomes = <<>>
    /\ fsStart = fs
    /\ call \in {<<[dt |-> dt, title |-> title]>> :
                    dt \in NameDates, title \in NameTitles}
GenerateFolderName ==
    /\ call # <<>>
    /\ "out" \notin DOMAIN call[1]
    /\ call' = <<[dt |-> call[1].dt, title |-> call[1].title,
                  out |-> generate_folder_name(call[1].dt, call[1].title)]>>
    /\ UNCHANGED <<pc, run, url, posts, idx, ret, fs, blog, cursor, feed, cfeed,
                   nfaults, log, attempted, outcomes, fsStart>>
NameNext == GenerateFolderName
NameSpec == NameInit /\ [][NameNext]_vars

(***************************************************************************)
(* Properties of the walk (fetch_all_posts), read off the log and the feed *)
(***************************************************************************)
\* The events of the log with the given operation, in order.
EventsOf(events, op) == SelectSeq(events, LAMBDA e : e.op = op)
\* The URLs of the page fetches of this run, in order.
FetchedUrls == [k \in DOMAIN EventsOf(log, "fetch") |-> EventsOf(log, "fetch")[k].arg[1]]
NumSleeps == Len(EventsOf(log, "sleep"))
\* The page holds a link whose relation is "next"; the href of the first.
NextLinks(page) == {k \in DOMAIN page.links :
                      "rel" \in DOMAIN page.links[k] /\ page.links[k].rel = "next"}
HasNextLink(page) == NextLinks(page) # {}
FirstNext(page) == page.links[CHOOSE k \in NextLinks(page) :
                                 \A m \in NextLinks(page) : k <= m]
\* The first "next" link of the page names a further page.
LinksOn(page) == /\ "href" \in DOMAIN FirstNext(page)
                 /\ FirstNext(page).href # ""
\* The chain of pages the feed holds from URL u on: the URLs, following the
\* first "next" link of each page, up to the first page without one.
RECURSIVE ChainFrom(_, _)
ChainFrom(u, fuel) ==
    IF fuel = 0 \/ ~Known(u) THEN <<>>
    ELSE IF HasNextLink(PageOf(u)) /\ LinksOn(PageOf(u))
         THEN <<u>> \o ChainFrom(FirstNext(PageOf(u)).href, fuel - 1)
         ELSE <<u>>
\* The entries of the pages behind the URLs, concatenated.
RECURSIVE EntriesOf(_)
EntriesOf(urls) == IF urls = <<>> THEN <<>>
                   ELSE PageOf(Head(urls)).entries \o EntriesOf(Tail(urls))
\* Every page fetched came without error, and every "next" link it carries
\* names a further page.
CleanWalk == \A k \in DOMAIN FetchedUrls :
                 /\ PageOf(FetchedUrls[k]).kind = "ok"
                 /\ ~PageOf(FetchedUrls[k]).bozo
                 /\ HasNextLink(PageOf(FetchedUrls[k])) => LinksOn(PageOf(FetchedUrls[k]))
Chain == ChainFrom(StartUrl, MaxFetches + 1)

\* C1: when fetch_all_posts has returned from a chain of n >= 1 pages that
\* were all fetched without error, the pages it fetched are exactly the
\* chain from the start URL up to the first page without a "next" link (n
\* fetches, in order), it made exactly n - 1 delays, and it returns the
\* concatenation of the pages' entries in page order.
C1_WalkReturnsChain ==
    (pc = "walked" /\ CleanWalk) =>
        /\ FetchedUrls = Chain
        /\ ~HasNextLink(PageOf(Chain[Len(Chain)]))
        /\ NumFetches = Len(Chain)
        /\ NumSleeps = Len(Chain) - 1
        /\ posts = EntriesOf(Chain)
\* A walk over three non-empty pages has returned: 3 fetches, 2 delays.
C1_Witness ==
    /\ pc = "walked" /\ CleanWalk
    /\ Len(FetchedUrls) = 3 /\ NumSleeps = 2 /\ Len(posts) = 3
    /\ \A k \in 1..3 : PageOf(FetchedUrls[k]).entries # <<>>

\* The fetch of the page reported an error and returned no entry.
FailedPage(page) == page.kind = "ok" /\ page.bozo /\ Len(page.entries) = 0
\* An exception of a page fetch has left fetch_all_posts, and main with it:
\* the last call of the run is a page fetch that raised.
WalkRaised ==
    /\ pc = "crashed"
    /\ log[Len(log)].op = "fetch"
    /\ PageOf(log[Len(log)].arg[1]).kind = "raise"
\* C2: once the fetch of page k has reported an error with zero entries,
\* the walk is over without an exception (main is at the walk's return or
\* past it, where only a later call of main can have raised): no page fetch
\* and no delay follows it, and the posts returned are the entries of pages
\* 1..k-1.
C2_FailedFetchStopsWalk ==
    \A k \in DOMAIN log :
        (log[k].op = "fetch" /\ FailedPage(PageOf(log[k].arg[1]))) =>
            /\ pc \in {"walked", "process", "done", "crashed"} /\ ~WalkRaised
            /\ \A m \in (k + 1)..Len(log) : log[m].op \notin {"fetch", "sleep"}
            /\ posts = EntriesOf([j \in DOMAIN EventsOf(SubSeq(log, 1, k - 1), "fetch")
                                    |-> EventsOf(SubSeq(log, 1, k - 1), "fetch")[j].arg[1]])
\* The second page failed after a first page with entries.
C2_Witness ==
    /\ pc = "walked"
    /\ log[Len(log)].op = "fetch"
    /\ FailedPage(PageOf(log[Len(log)].arg[1]))
    /\ NumFetches >= 2 /\ posts # <<>>

\* C3: the walk is guarded against a feed that never ends: it terminates on
\* every feed.  The page behind a URL does not change during a walk, so a
\* walk that is about to fetch a URL it has fetched before repeats from
\* there for ever; the claim is that this state is never reached.
C3_WalkNeverRevisits ==
    ~(pc = "walk" /\ \E k \in DOMAIN FetchedUrls : Some(FetchedUrls[k]) = url)

(***************************************************************************)
(* Properties of main and process_post, read off the history of the calls  *)
(***************************************************************************)
\* The entries of the blogs, and for each its published field parsed.
Entries == Range(LightPosts) \cup UNION {Range(b) : b \in RichBlogs}
ParsedEntries == [e \in Entries |-> parse_datetime(Get(e, "published", <<>>))]
\* The published field of the entry parses as a timestamp.
Parses(entry) == ParsedEntries[entry] # Nothing
\* The id field of the entry holds a token "post-<digits>": the five
\* characters and a decimal digit, of whatever script.
PostToken == <<"p", "o", "s", "t", "-">>
HasPostToken(entry) ==
    "id" \in DOMAIN entry
    /\ \E i \in 1..(Len(entry.id) - 5) :
           SubSeq(entry.id, i, i + 4) = PostToken /\ entry.id[i + 5] \in DecimalDigits
\* The folder, index.md and comments.md of an entry whose timestamp parses.
FolderPath(entry) ==
    JoinAll(<<OUTPUT_DIR,
              strftime_Y(parse_datetime(entry.published)[1]),
              generate_folder_name(parse_datetime(entry.published)[1],
                                   Strip(Get(entry, "title", <<>>)))>>)
Folders == [e \in {x \in Entries : ParsedEntries[x] # Nothing} |-> FolderPath(e)]
FolderOf(entry) == Folders[entry]
IndexPath(entry) == FolderOf(entry) \o <<"/">> \o INDEX_MD
CommentsPath(entry) == FolderOf(entry) \o <<"/">> \o COMMENTS_MD
\* The j-th call of process_post in this run fetched the comment feed, wrote
\* the file at path, wrote a file of the given name.
FetchedAt(j) == \E k \in DOMAIN outcomes[j].events :
                    outcomes[j].events[k].op = "fetch_comments"
WroteAt(j, path) == \E k \in DOMAIN outcomes[j].events :
                        outcomes[j].events[k] = [op |-> "write", arg |-> path]
EndsWith(text, suffix) ==
    Len(text) >= Len(suffix)
    /\ SubSeq(text, Len(text) - Len(suffix) + 1, Len(text)) = suffix
WroteNamed(j, name) == \E k \in DOMAIN outcomes[j].events :
                           /\ outcomes[j].events[k].op = "write"
                           /\ EndsWith(outcomes[j].events[k].arg, name)
\* The fetch result of the comment feed of the entry, once it was fetched;
\* it failed; the comments it gives.
ResultFor(entry) == ResultOf(extract_post_id(entry)[1])
FailedResult(res) == res.kind = "raise" \/ (res.bozo /\ Len(res.entries) = 0)
CommentsFor(entry) == IF FailedResult(ResultFor(entry)) THEN <<>>
                      ELSE ResultFor(entry).entries

\* The walk has returned a list of entries that is not empty.
Collected == /\ posts # <<>>
             /\ pc \in {"process", "done", "crashed"} /\ ~WalkRaised
\* main has created the output root: os.makedirs(OUTPUT_DIR) has returned.
RootCreated == \E k \in DOMAIN log :
                   log[k].op = "makedirs" /\ log[k].arg = OUTPUT_DIR
\* main is in its loop with the entries before the idx-th attempted, one
\* call each and in feed order, or has returned normally with every entry
\* attempted.
AttemptedInOrder ==
    /\ pc \in {"process", "done"}
    /\ pc = "process" => idx <= Len(posts) /\ attempted = SubSeq(posts, 1, idx - 1)
    /\ pc = "done" =>
           attempted = posts /\ Len(outcomes) = Len(posts) /\ ret = Some(Nothing)

\* C4 as stated: for every non-empty list of collected entries main calls
\* process_post on every entry exactly once and in feed order, whatever the
\* earlier calls did (returned a folder, skipped the post, raised), and
\* then returns normally.
C4_EveryEntryAttempted == Collected => AttemptedInOrder
\* C4, amended: the same for every non-empty list of collected entries for
\* which main has created the output root (the os.makedirs(OUTPUT_DIR) of
\* line 170, which is in no try, did not raise).
C4_AttemptedOnceRootCreated ==
    /\ (Collected /\ RootCreated) => AttemptedInOrder
    /\ (Collected /\ ~RootCreated) => pc = "crashed" /\ attempted = <<>>
\* A run of three posts has ended: the first raised, the second was skipped,
\* the third was written.
C4_Witness ==
    /\ Collected /\ RootCreated
    /\ pc = "done" /\ Len(outcomes) = 3
    /\ outcomes[1].result = "error"
    /\ outcomes[2].result = "skipped"
    /\ outcomes[3].result = "ok"

\* C5: process_post on an entry whose published field does not parse leaves
\* the filesystem as it is (no directory, no index.md, no comments.md),
\* makes no delay and no fetch, and returns None (the post is skipped).
C5_BadTimestampSkipped ==
    [][(pc = "process" /\ ~Parses(posts[idx])) =>
          /\ fs' = fs
          /\ log' = log
          /\ outcomes' = Append(outcomes, [result |-> "skipped", folder |-> <<>>,
                                           events |-> <<>>])]_vars
\* A post whose published field is a text that is no timestamp, or is
\* missing, has been skipped.
C5_Witness ==
    \E j \in DOMAIN outcomes :
        /\ ~Parses(attempted[j])
        /\ outcomes[j].result = "skipped"
        /\ attempted[j] \in {PostC, PostE}

\* C6: for a post with parseable timestamp and identifier whose comment-feed
\* fetch fails (an error with zero entries, or an exception), fetch_comments
\* returns the empty sequence and process_post completes: index.md is
\* written, comments.md is not, the folder path is returned.
C6_CommentFailureNotFatal ==
    \A j \in DOMAIN outcomes :
        (/\ Parses(attempted[j]) /\ HasPostToken(attempted[j]) /\ FetchedAt(j)
         /\ FailedResult(ResultFor(attempted[j]))) =>
            /\ fetch_comments(extract_post_id(attempted[j]),
                              ResultFor(attempted[j])).comments = <<>>
            /\ outcomes[j].result = "ok"
            /\ outcomes[j].folder = FolderOf(attempted[j])
            /\ WroteAt(j, IndexPath(attempted[j]))
            /\ HasFile(fs, IndexPath(attempted[j]))
            /\ ~WroteNamed(j, COMMENTS_MD)
\* One post met an exception of the fetch, another an error with no entry.
C6_Witness ==
    \E j, k \in DOMAIN outcomes :
        /\ FetchedAt(j) /\ ResultFor(attempted[j]).kind = "raise"
        /\ FetchedAt(k) /\ ResultFor(attempted[k]).kind = "ok"
        /\ ResultFor(attempted[k]).bozo /\ ResultFor(attempted[k]).entries = <<>>
        /\ outcomes[j].result = "ok" /\ outcomes[k].result = "ok"

\* C7: without a "post-<digits>" token in the id of the entry no request for
\* comments is made: fetch_comments on an absent identifier (None, or the
\* empty text) returns the empty sequence without a fetch, whatever the
\* comment feed would answer, and process_post makes neither the delay nor
\* the comment-feed fetch.
C7_NoIdNoRequest ==
    /\ \A res \in CommentResults, absent \in {Nothing, Some(<<>>)} :
           /\ fetch_comments(absent, res).comments = <<>>
           /\ fetch_comments(absent, res).events = <<>>
           /\ ~fetch_comments(absent, res).raised
    /\ \A j \in DOMAIN outcomes :
           ~HasPostToken(attempted[j]) =>
               \A k \in DOMAIN outcomes[j].events :
                   outcomes[j].events[k].op \notin {"sleep", "fetch_comments"}
\* A post with timestamp and without identifier has been written, in a run
\* in which the comment feed of a post with identifier has been fetched.
C7_Witness ==
    \E j, k \in DOMAIN outcomes :
        /\ ~HasPostToken(attempted[j]) /\ Parses(attempted[j])
        /\ outcomes[j].result = "ok"
        /\ WroteAt(j, IndexPath(attempted[j]))
        /\ HasPostToken(attempted[k]) /\ FetchedAt(k)

\* The lines of a text (the pieces between its newlines), as a function
\* from the position where a line starts to the line.
LineStarts(text) == {1} \cup {i + 1 : i \in {j \in DOMAIN text : text[j] = "\n"}}
LineEnd(starts, p) == CHOOSE e \in starts : e > p /\ \A f \in starts : f > p => e <= f
LinesFrom(text, starts) ==
    [p \in starts |->
        SubSeq(text, p, LineEnd(starts \cup {Len(text) + 2}, p) - 2)]
LinesOf(text) == LinesFrom(text, LineStarts(text))
StartsWith(text, prefix) ==
    Len(text) >= Len(prefix) /\ SubSeq(text, 1, Len(prefix)) = prefix
\* The heading of the section of a comment: its author, or Anonymous, and
\* its date as format_comment_date renders it.
AuthorOf(comment) ==
    IF "author_detail" \in DOMAIN comment /\ "name" \in DOMAIN comment.author_detail
    THEN comment.author_detail.name
    ELSE <<"A", "n", "o", "n", "y", "m", "o", "u", "s">>
HeadingOf(comment) ==
    <<"#", "#", " ">> \o AuthorOf(comment) \o <<" ", "-", " ">>
    \o format_comment_date(Get(comment, "published", <<>>))
\* Where the lines that start with prefix start; where the separators start.
LinesWith(lines, prefix) == {p \in DOMAIN lines : StartsWith(lines[p], prefix)}
SeparatorLines(lines) == {p \in DOMAIN lines : lines[p] = <<"-", "-", "-">>}
\* The k-th smallest member of a set of numbers.
Nth(set, k) == CHOOSE x \in set : Cardinality({y \in set : y < x}) = k - 1
\* lines, with section headings at heads and separators at seps, are a
\* comments.md of these comments: the heading, one section per comment in
\* order, one separator between consecutive sections and none after the
\* last.
WellFormedSections(lines, heads, seps, comments) ==
    /\ lines[1] = <<"#", " ", "C", "o", "m", "m", "e", "n", "t", "s">>
    /\ Cardinality(LinesWith(lines, <<"#", " ">>)) = 1
    /\ Cardinality(heads) = Len(comments)
    /\ \A k \in DOMAIN comments : lines[Nth(heads, k)] = HeadingOf(comments[k])
    /\ Cardinality(seps) = Len(comments) - 1
    /\ \A k \in 1..(Len(comments) - 1) :
           \E m \in seps : Nth(heads, k) < m /\ m < Nth(heads, k + 1)
    /\ \A m \in seps : m < Nth(heads, Len(comments))
WellFormedLines(lines, comments) ==
    WellFormedSections(lines, LinesWith(lines, <<"#", "#", " ">>),
                       SeparatorLines(lines), comments)
WellFormedComments(text, comments) == WellFormedLines(LinesOf(text), comments)
\* The comments.md in the folder the j-th call returned.
CommentsFileAt(j) == outcomes[j].folder \o <<"/">> \o COMMENTS_MD

\* C8: when process_post has obtained n >= 1 comments, the comments.md it
\* leaves in the folder of the post is the heading "# Comments" followed by
\* n sections in feed order, each with a heading "## <author> - <date>",
\* with exactly n - 1 "---" separators, one between consecutive sections and
\* none after the last.
C8_CommentsDocument ==
    (/\ outcomes # <<>>
     /\ outcomes[Len(outcomes)].result = "ok"
     /\ FetchedAt(Len(outcomes))
     /\ Len(CommentsFor(attempted[Len(outcomes)])) >= 1) =>
        /\ WroteAt(Len(outcomes), CommentsFileAt(Len(outcomes)))
        /\ HasFile(fs, CommentsFileAt(Len(outcomes)))
        /\ WellFormedComments(FileContent(fs, CommentsFileAt(Len(outcomes))),
                              CommentsFor(attempted[Len(outcomes)]))
\* The last call wrote a comments.md of two comments.
C8_Witness ==
    /\ outcomes # <<>>
    /\ outcomes[Len(outcomes)].result = "ok"
    /\ FetchedAt(Len(outcomes))
    /\ Len(CommentsFor(attempted[Len(outcomes)])) = 2
    /\ HasFile(fs, CommentsFileAt(Len(outcomes)))

\* The paths of the files in the tree; of the files written in this run.
FilePaths(fsys) == {f.path : f \in fsys.files}
WrittenPaths ==
    UNION {{outcomes[j].events[k].arg :
               k \in {m \in DOMAIN outcomes[j].events :
                         outcomes[j].events[m].op = "write"}} :
           j \in DOMAIN outcomes}

\* C9: in a run that starts from an empty output root, for every entry that
\* process_post handled without an exception: index.md is written iff the
\* timestamp parses; comments.md is written iff the timestamp parses, the
\* entry has an identifier and at least one comment was obtained.  The files
\* of the tree are the files so written.
C9_WhatIsWritten ==
    (run = 1 /\ fsStart = EmptyFs) =>
        /\ \A j \in DOMAIN outcomes :
               outcomes[j].result # "error" =>
                   /\ WroteNamed(j, INDEX_MD) <=> Parses(attempted[j])
                   /\ Parses(attempted[j]) => WroteAt(j, IndexPath(attempted[j]))
                   /\ WroteNamed(j, COMMENTS_MD) <=>
                          (/\ Parses(attempted[j])
                           /\ HasPostToken(attempted[j])
                           /\ Len(CommentsFor(attempted[j])) >= 1)
                   /\ WroteNamed(j, COMMENTS_MD) =>
                          WroteAt(j, CommentsPath(attempted[j]))
        /\ FilePaths(fs) = WrittenPaths
\* From an empty root the run has ended with a post skipped, a post written
\* with its comments (the post whose identifier begins with a digit that is
\* not one of 0 to 9) and a post written without.
C9_Witness ==
    /\ pc = "done" /\ run = 1 /\ fsStart = EmptyFs
    /\ \E j, k, m \in DOMAIN outcomes :
           /\ outcomes[j].result = "skipped"
           /\ outcomes[k].result = "ok" /\ WroteNamed(k, COMMENTS_MD)
           /\ attempted[k].id[6] \notin DigitSet
           /\ outcomes[m].result = "ok" /\ WroteNamed(m, INDEX_MD)
           /\ ~WroteNamed(m, COMMENTS_MD)

\* No two collected entries map to the same folder.
NoCollision ==
    \A j, k \in DOMAIN posts :
        (j # k /\ Parses(posts[j]) /\ Parses(posts[k])) =>
            FolderOf(posts[j]) # FolderOf(posts[k])

\* C10: a second run over the same feed (the pages and the comment feeds
\* answer as in the first run), with no two entries in one folder and no
\* failing filesystem call in either run, leaves the output tree, contents
\* included, as the first run left it.
C10_SecondRunSameTree ==
    (pc = "done" /\ run = 2 /\ nfaults = 0 /\ NoCollision) => fs = fsStart
\* A second run over at least two posts has ended, having rewritten an
\* index.md and a comments.md.
C10_Witness ==
    /\ pc = "done" /\ run = 2 /\ nfaults = 0 /\ NoCollision
    /\ Len(posts) >= 2
    /\ \E j \in DOMAIN outcomes :
           WroteNamed(j, INDEX_MD) /\ WroteNamed(j, COMMENTS_MD)

(***************************************************************************)
(* Properties of the whole run                                             *)
(***************************************************************************)
\* The calls of this run with one of these names.
LogOps(ops) == {k \in DOMAIN log : log[k].op \in ops}

\* C11: when the walk has returned no entry (an empty feed, or a first page
\* that failed), main returns normally with no output: the filesystem is as
\* the run found it, the output root is not created, no process_post call
\* and no comment-feed fetch is made.
C11_NoPostsNoOutput ==
    (pc \notin {"start", "walk", "walked"} /\ ~WalkRaised /\ posts = <<>>) =>
        /\ pc = "done" /\ ret = Some(Nothing)
        /\ fs = fsStart
        /\ LogOps({"makedirs", "write", "fetch_comments"}) = {}
        /\ outcomes = <<>>
\* On an empty filesystem main has returned after an empty first page whose
\* next link led to a page that failed.
C11_Witness ==
    /\ pc = "done" /\ posts = <<>> /\ ret = Some(Nothing)
    /\ fsStart = EmptyFs /\ fs.dirs = {}
    /\ Len(log) >= 3 /\ log[1].op = "fetch"
    /\ ~PageOf(log[1].arg[1]).bozo /\ PageOf(log[1].arg[1]).entries = <<>>
    /\ log[Len(log)].op = "fetch"
    /\ PageOf(log[Len(log)].arg[1]).bozo
    /\ PageOf(log[Len(log)].arg[1]).entries = <<>>

(***************************************************************************)
(* Properties of generate_folder_name                                      *)
(***************************************************************************)
\* "%04d"
Pad4(n) == (IF n < 10 THEN <<"0", "0", "0">>
            ELSE IF n < 100 THEN <<"0", "0">>
            ELSE IF n < 1000 THEN <<"0">> ELSE <<>>) \o Dec(n)
\* YYYY-MM-DD-HH-MM
DatePrefix(dt) ==
    Pad4(dt.year) \o <<"-">> \o Pad2(dt.month) \o <<"-">> \o Pad2(dt.day)
    \o <<"-">> \o Pad2(dt.hour) \o <<"-">> \o Pad2(dt.minute)
\* The title has nothing but whitespace.
Blank(title) == \A i \in DOMAIN title : title[i] = " "
Applied == call # <<>> /\ "out" \in DOMAIN call[1]

\* C12: generate_folder_name returns exactly the date prefix
\* YYYY-MM-DD-HH-MM, with no trailing hyphen, for an empty or
\* whitespace-only title, and the date prefix, one hyphen and the slug of the
\* title, of at most 50 characters, for any other title.
C12_FolderName ==
    Applied =>
        /\ Blank(call[1].title) => call[1].out = DatePrefix(call[1].dt)
        /\ ~Blank(call[1].title) =>
               /\ call[1].out = DatePrefix(call[1].dt) \o <<"-">>
                                \o slugify(call[1].title, SLUG_MAX_LENGTH)
               /\ Len(call[1].out) <= Len(DatePrefix(call[1].dt)) + 1 + 50
\* The same for the years that have four digits.
FolderNameFourDigits == call # <<>> /\ call[1].dt.year >= 1000 => C12_FolderName

\* The number of process_post calls of this run that wrote an index.md and
\* returned the folder.
NumWritten ==
    Cardinality({j \in DOMAIN outcomes :
                    outcomes[j].result = "ok" /\ WroteNamed(j, INDEX_MD)})

\* C13: the value main returns is the count of the posts written in this
\* run: the number of entries for which index.md was written, skipped and
\* failed posts not counted.
C13_ReturnsCount == pc = "done" => ret = Some(Some(NumWritten))

\* The network fetches of this run: of a feed page, of a comment feed.
Fetches == LogOps({"fetch", "fetch_comments"})
\* The fetch of a page after which the walk goes to no further page.
LastPageFetch(k) ==
    /\ log[k].op = "fetch"
    /\ \/ FailedPage(PageOf(log[k].arg[1]))
       \/ ~HasNextLink(PageOf(log[k].arg[1]))
       \/ ~LinksOn(PageOf(log[k].arg[1]))

\* C14: in every run the first call is the fetch of the first page, and
\* every other network fetch (a later page, a comment feed) is directly
\* preceded by a delay: nothing, no write and no other fetch, comes between
\* the delay and the fetch, and the delay comes after the previous fetch.
\* No delay directly follows the fetch of the last page.
C14_DelayBeforeFetch ==
    /\ \A k \in Fetches :
           IF \E m \in Fetches : m < k
           THEN log[k - 1].op = "sleep"
           ELSE k = 1 /\ log[k].op = "fetch"
    /\ \A k \in DOMAIN log :
           (LastPageFetch(k) /\ k < Len(log)) => log[k + 1].op # "sleep"
\* A run has ended with two pages and a comment feed fetched, the last page
\* without a next link.
C14_Witness ==
    /\ pc = "done"
    /\ Cardinality(LogOps({"fetch"})) >= 2
    /\ Cardinality(LogOps({"fetch_comments"})) >= 1
    /\ \E k \in DOMAIN log : LastPageFetch(k) /\ k < Len(log)
                             /\ ~HasNextLink(PageOf(log[k].arg[1]))

\* The index.md document of an entry.
DocumentOf(entry) ==
    index_document(Strip(Get(entry, "title", <<>>)),
                   html_to_markdown(entry_content(entry)))
\* The j-th and the k-th call are on posts with parseable timestamps that
\* resolve to the same folder, and both got as far as writing index.md.
Collide(j, k) ==
    /\ j < k
    /\ WroteNamed(j, INDEX_MD) /\ WroteNamed(k, INDEX_MD)
    /\ Parses(attempted[j]) /\ Parses(attempted[k])
    /\ FolderOf(attempted[j]) = FolderOf(attempted[k])

\* C15: when two posts of one run resolve to the same year and folder name,
\* both write to that one folder (the name is not disambiguated), and after
\* the run its index.md holds the document of the one that comes later in
\* feed order (the last one, when more than two collide).
C15_LastWriterWins ==
    pc = "done" =>
        \A j, k \in DOMAIN outcomes :
            Collide(j, k) =>
                /\ WroteAt(j, IndexPath(attempted[k]))
                /\ WroteAt(k, IndexPath(attempted[k]))
                /\ (\A m \in DOMAIN outcomes : m > k => ~Collide(k, m)) =>
                       FileContent(fs, IndexPath(attempted[k])) =
                           DocumentOf(attempted[k])
\* A run has ended in which two different posts wrote to one folder, and the
\* documents of the two differ.
C15_Witness ==
    /\ pc = "done"
    /\ \E j, k \in DOMAIN outcomes :
           /\ Collide(j, k)
           /\ outcomes[j].result = "ok" /\ outcomes[k].result = "ok"
           /\ DocumentOf(attempted[j]) # DocumentOf(attempted[k])
           /\ FileContent(fs, IndexPath(attempted[k])) = DocumentOf(attempted[k])

\* C16: after a run over a non-empty feed in which no call failed, every
\* index.md and comments.md under the output root was written by that run:
\* no file of an earlier run survives.
C16_NoStaleFiles ==
    (pc = "done" /\ posts # <<>> /\ nfaults = 0) =>
        \A f \in fs.files :
            (EndsWith(f.path, INDEX_MD) \/ EndsWith(f.path, COMMENTS_MD)) =>
                f.path \in WrittenPaths
\* What does hold: a run leaves every file it does not write as it found it,
\* and creates no file but those it writes.
UnwrittenFilesKept ==
    /\ \A f \in fsStart.files : f.path \notin WrittenPaths => f \in fs.files
    /\ \A f \in fs.files : f.path \notin WrittenPaths => f \in fsStart.files

\* The fetch reported an error and still gave entries.
BozoData(feed_) == feed_.bozo /\ Len(feed_.entries) > 0
\* The entries of the first k pages fetched in this run.
EntriesUpTo(k) == EntriesOf(SubSeq(FetchedUrls, 1, k))
\* The walk went on from the k-th page fetched to the page its first "next"
\* link names, or ended there when it names none.
Followed(k, page) ==
    IF HasNextLink(page) /\ LinksOn(page)
    THEN IF k < Len(FetchedUrls)
         THEN FetchedUrls[k + 1] = FirstNext(page).href
         ELSE pc = "walk" /\ url = Some(FirstNext(page).href)
    ELSE k = Len(FetchedUrls) /\ pc # "walk"

\* C17: a page fetch that reports an error and has at least one entry is
\* data: its entries are appended to the posts collected and the walk goes
\* on along its "next" link as after any page.  A comment feed that reports
\* an error and has entries gives these entries: fetch_comments returns them
\* and comments.md is written.
C17_ErrorWithEntriesIsData ==
    /\ \A k \in DOMAIN FetchedUrls :
           BozoData(PageOf(FetchedUrls[k])) =>
               /\ Len(posts) >= Len(EntriesUpTo(k))
               /\ SubSeq(posts, 1, Len(EntriesUpTo(k))) = EntriesUpTo(k)
               /\ Followed(k, PageOf(FetchedUrls[k]))
    /\ \A j \in DOMAIN outcomes :
           (FetchedAt(j) /\ BozoData(ResultFor(attempted[j]))) =>
               /\ fetch_comments(extract_post_id(attempted[j]),
                                 ResultFor(attempted[j])).comments
                  = ResultFor(attempted[j]).entries
               /\ WroteAt(j, CommentsPath(attempted[j]))
\* A run has ended in which a page in error with entries was followed by a
\* further page, and a comment feed in error with entries was written.
C17_Witness ==
    /\ pc = "done"
    /\ \E k \in DOMAIN FetchedUrls :
           /\ BozoData(PageOf(FetchedUrls[k]))
           /\ k < Len(FetchedUrls)
           /\ Len(posts) > Len(PageOf(FetchedUrls[k]).entries)
    /\ \E j \in DOMAIN outcomes :
           /\ FetchedAt(j) /\ BozoData(ResultFor(attempted[j]))
           /\ WroteNamed(j, COMMENTS_MD)

\* The folder a comments.md lies in.
FolderOfFile(path) == SubSeq(path, 1, Len(path) - Len(COMMENTS_MD) - 1)
\* The folder holds the documents of the j-th post of this run: its index.md
\* is the document of the post, and comments is the document of the comments
\* fetched for that post, of which there is at least one.
OwnedBy(j, folder, comments) ==
    /\ Parses(attempted[j]) /\ HasPostToken(attempted[j]) /\ FetchedAt(j)
    /\ folder = FolderOf(attempted[j])
    /\ HasFile(fs, IndexPath(attempted[j]))
    /\ FileContent(fs, IndexPath(attempted[j])) = DocumentOf(attempted[j])
    /\ Len(CommentsFor(attempted[j])) >= 1
    /\ comments = comments_document(CommentsFor(attempted[j]))
EveryCommentsFileOwned ==
    \A f \in fs.files :
        EndsWith(f.path, COMMENTS_MD) =>
            \E j \in DOMAIN outcomes : OwnedBy(j, FolderOfFile(f.path), f.content)
FromEmptyRoot == pc = "done" /\ run = 1 /\ fsStart = EmptyFs

\* C18 as stated: after any run that starts from an empty output root, in
\* every folder that contains a comments.md, the comments in it were fetched
\* for the same post whose document is in the index.md of the folder (here
\* for the runs in which no filesystem call fails).
C18_OwnDirectory == (FromEmptyRoot /\ nfaults = 0) => EveryCommentsFileOwned
\* C18, amended: the same, for runs in which no two posts with parseable
\* timestamps resolve to the same folder.
C18_OwnDirectoryNoCollision ==
    (FromEmptyRoot /\ NoCollision) => EveryCommentsFileOwned
\* A run without collision from an empty root has ended with at least two
\* posts written, one of them with its comments.md.
C18_Witness ==
    /\ FromEmptyRoot /\ NoCollision
    /\ \E f \in fs.files : EndsWith(f.path, COMMENTS_MD)
    /\ Cardinality({f \in fs.files : EndsWith(f.path, INDEX_MD)}) >= 2

(***************************************************************************)
(* Properties of the sections of comments.md                               *)
(***************************************************************************)
\* YYYY-MM-DD HH:MM
DateAndTime(dt) ==
    Pad4(dt.year) \o <<"-">> \o Pad2(dt.month) \o <<"-">> \o Pad2(dt.day)
    \o <<" ">> \o Pad2(dt.hour) \o <<":">> \o Pad2(dt.minute)
\* The date of the section of a comment: formatted when the published field
\* parses (dt is the field parsed), else the field as it is.
DateShown(date_string, dt) ==
    IF dt # Nothing THEN DateAndTime(dt[1]) ELSE date_string
SectionHeading(comment) ==
    <<"#", "#", " ">> \o AuthorOf(comment) \o <<" ", "-", " ">>
    \o DateShown(Get(comment, "published", <<>>),
                 parse_datetime(Get(comment, "published", <<>>)))
\* lines, with section headings at heads, have one section per comment, in
\* order, under the heading the comment is to have.
EverySectionWritten(lines, heads, comments) ==
    /\ Cardinality(heads) = Len(comments)
    /\ \A k \in DOMAIN comments : lines[Nth(heads, k)] = SectionHeading(comments[k])
SectionsOf(lines, comments) ==
    EverySectionWritten(lines, LinesWith(lines, <<"#", "#", " ">>), comments)
\* The last process_post call obtained at least one comment.
GotComments ==
    /\ outcomes # <<>>
    /\ outcomes[Len(outcomes)].result = "ok"
    /\ FetchedAt(Len(outcomes))
    /\ Len(CommentsFor(attempted[Len(outcomes)])) >= 1
\* The year of the published field of every comment that parses has four
\* digits.
FourDigitYears(comments) ==
    \A k \in DOMAIN comments :
        parse_datetime(Get(comments[k], "published", <<>>)) # Nothing =>
            parse_datetime(Get(comments[k], "published", <<>>))[1].year >= 1000

\* C19: no comment is dropped for a bad timestamp: process_post writes a
\* section for every comment fetched, in order, with the date as
\* YYYY-MM-DD HH:MM when the published field parses and the field unchanged
\* when it does not, and with the author "Anonymous" when the comment has no
\* author name.
C19_EveryCommentWritten ==
    GotComments =>
        /\ HasFile(fs, CommentsFileAt(Len(outcomes)))
        /\ SectionsOf(LinesOf(FileContent(fs, CommentsFileAt(Len(outcomes)))),
                      CommentsFor(attempted[Len(outcomes)]))
\* The same for the comments whose years have four digits.
SectionsFourDigits ==
    (GotComments /\ FourDigitYears(CommentsFor(attempted[Len(outcomes)]))) =>
        /\ HasFile(fs, CommentsFileAt(Len(outcomes)))
        /\ SectionsOf(LinesOf(FileContent(fs, CommentsFileAt(Len(outcomes)))),
                      CommentsFor(attempted[Len(outcomes)]))

====
